---- MODULE Spec2Model ----
(***************************************************************************)
(* ProxImaL: the linear operators pxwise_matrixmult and transpose          *)
(* (proximal/lin_ops) and the affine wrapper ProxFn (proximal/prox_fns).   *)
(*                                                                         *)
(* Numbers are exact rationals [n, d] (d > 0, lowest terms): the model     *)
(* checks the algebra of the float32 code, not its rounding.  Arrays are   *)
(* records [shape, data]; data maps every 0-based multi-index of the shape *)
(* (a sequence) to a number.                                               *)
(***************************************************************************)
EXTENDS Integers, Sequences, FiniteSets, TLC

VARIABLES
    node,   \* the linear operator under test: unset, a node, or the constructor's error
    x,      \* the input buffer of the last forward call
    fx,     \* what forward wrote to the output buffer, or the exception it raised
    y,      \* the buffer the last adjoint call read
    aty,    \* what adjoint wrote, or the exception it raised
    nb,     \* the result of norm_bound([1]), or the exception it raised
    fn,     \* the ProxFn wrapper: unset, a wrapper, or the constructor's error
    args,   \* the arguments the ProxFn constructor was called with
    call,   \* the last prox / prox_cuda call: its name, rho and the caller's v
    vbuf,   \* the caller's buffer v after the call
    ret,    \* what the call returned, or the exception it raised
    calls,  \* the number of prox_cuda calls made
    gens,   \* the number of times gen_cuda_code has run
    chain,  \* an operator chain: the variable's shape and the nodes above it
    cin,    \* the direction and the input buffer of the chain's evaluation
    chost,  \* the result of the host evaluation of the chain
    ckern,  \* the array the fused kernel of the chain wrote
    emit,   \* the emission walk that produced the kernel body
    orig,   \* the wrapper as it was when copy / * / / was called on it
    cop,    \* that operation and its arguments
    derived,\* what the operation returned or raised
    nops,   \* the number of wrappers derived so far
    launch, \* the configuration of the running launch of the prox kernel
    tpos,   \* for every thread of the launch the value of its loop variable vidx
    xhatw,  \* for every element of xhat the threads that wrote it, in order
    oob     \* the indices outside the buffers that threads accessed

linVars == <<node, x, fx, y, aty, nb>>
proxVars == <<fn, args, call, vbuf, ret, calls, gens>>
cudaVars == <<chain, cin, chost, ckern, emit>>
copyVars == <<orig, cop, derived, nops>>
launchVars == <<launch, tpos, xhatw, oob>>
vars == <<node, x, fx, y, aty, nb, fn, args, call, vbuf, ret, calls, gens,
          chain, cin, chost, ckern, emit, orig, cop, derived, nops,
          launch, tpos, xhatw, oob>>

(***************************************************************************)
(* Bounds of the model.                                                    *)
(***************************************************************************)
\* largest number of nodes of an operator chain
MaxChain == 2
\* largest number of elements of the array a prox kernel is launched on
MaxDimv == 6
\* largest MAX_THREADS_PER_BLOCK of a device
MaxThreadsPerBlock == 3
\* largest number of wrappers derived one from the other
MaxOps == 2
\* largest number of prox_cuda calls on one wrapper
MaxCalls == 2
\* largest penalty weight rho passed to prox
MaxRho == 2
\* largest number of entries of the constant tensor A of a pxwise_matrixmult
\* and of the array a transpose permutes
MaxSize == 4

(***************************************************************************)
(* Rational arithmetic.                                                    *)
(***************************************************************************)
Abs(i) == IF i < 0 THEN -i ELSE i

RECURSIVE Gcd(_, _)
Gcd(a, b) == IF b = 0 THEN a ELSE Gcd(b, a % b)

Rat(n, d) ==
    LET g == Gcd(Abs(n), Abs(d))
        s == IF d < 0 THEN -1 ELSE 1
    IN  [n |-> (s * n) \div g, d |-> (s * d) \div g]

R(i) == [n |-> i, d |-> 1]
Half == [n |-> 1, d |-> 2]
RAdd(p, q) == Rat(p.n * q.d + q.n * p.d, p.d * q.d)
RSub(p, q) == Rat(p.n * q.d - q.n * p.d, p.d * q.d)
RMul(p, q) == Rat(p.n * q.n, p.d * q.d)
RDiv(p, q) == Rat(p.n * q.d, p.d * q.n)
RLe(p, q) == p.n * q.d <= q.n * p.d
RLt(p, q) == p.n * q.d < q.n * p.d
RMax(p, q) == IF RLe(p, q) THEN q ELSE p
RIsZero(p) == p.n = 0

\* np.sqrt on the numbers whose square root is rational
IsSquare(i) == \E s \in 0..i : s * s = i
ISqrt(i) == CHOOSE s \in 0..i : s * s = i
HasRSqrt(p) == p.n >= 0 /\ IsSquare(p.n) /\ IsSquare(p.d)
RSqrt(p) == [n |-> ISqrt(p.n), d |-> ISqrt(p.d)]

(***************************************************************************)
(* Shapes, indices and arrays (numpy, C order).                            *)
(***************************************************************************)
\* s[k] for a 0-based k
At(s, k) == s[k + 1]
Last(s) == s[Len(s)]
Front(s) == SubSeq(s, 1, Len(s) - 1)

RECURSIVE Prod(_)
Prod(s) == IF s = <<>> THEN 1 ELSE Head(s) * Prod(Tail(s))

RECURSIVE MaxOf(_)
MaxOf(s) == IF s = <<>> THEN 0
            ELSE LET m == MaxOf(Tail(s)) IN IF Head(s) > m THEN Head(s) ELSE m

\* every multi-index of an array of the given shape
RECURSIVE IndexSet(_)
IndexSet(shape) ==
    IF shape = <<>> THEN {<<>>}
    ELSE {Append(p, i) : p \in IndexSet(Front(shape)), i \in 0..(Last(shape) - 1)}

\* every array of the given shape with entries in vals
Arrays(shape, vals) ==
    {[shape |-> shape, data |-> f] : f \in [IndexSet(shape) -> vals]}

\* np.zeros(shape)
Zeros(shape) == [shape |-> shape, data |-> [idx \in IndexSet(shape) |-> R(0)]]

\* the shapes of the given rank with at most size entries
ShapesOfRank(r, size) ==
    {s \in [1..r -> 1..size] : Prod(s) <= size}

\* sum of f[j] over j = 0 .. n-1, accumulated in loop order
RECURSIVE SumTo(_, _)
SumTo(f, n) == IF n = 0 THEN R(0) ELSE RAdd(SumTo(f, n - 1), f[n - 1])

(***************************************************************************)
(* Values that are either unset, a result or a raised exception.           *)
(***************************************************************************)
Unset == [kind |-> "unset"]
Ok(v) == [kind |-> "ok", val |-> v]
Err(e) == [kind |-> "error", err |-> e]
IsOk(r) == r.kind = "ok"
IsErr(r) == r.kind = "error"

(***************************************************************************)
(* numpy primitives the operators rely on.                                 *)
(***************************************************************************)
\* np.all(np.array(s) == np.array(t)) for two shape tuples: elementwise when
\* the lengths agree, broadcast when one of them has length 1 (an empty
\* comparison is all-true); any other pair of lengths does not compare
\* (False, or an error in later numpy versions).
NumpyAllEq(s, t) ==
    IF Len(s) = Len(t) THEN \A k \in 1..Len(s) : s[k] = t[k]
    ELSE IF Len(s) = 1 THEN \A k \in 1..Len(t) : t[k] = s[1]
    ELSE IF Len(t) = 1 THEN \A k \in 1..Len(s) : s[k] = t[1]
    ELSE FALSE

\* can an array of shape src be broadcast to shape dst (right-aligned)
BroadcastableTo(src, dst) ==
    /\ Len(src) <= Len(dst)
    /\ \A k \in 1..Len(src) :
          LET dk == dst[Len(dst) - Len(src) + k]
          IN  src[k] = dk \/ src[k] = 1

\* the index of shape src that the index idx of a broadcast shape reads
BIdx(idx, src) ==
    [k \in 1..Len(src) |->
        IF src[k] = 1 THEN 0 ELSE idx[Len(idx) - Len(src) + k]]

\* np.copyto(dst, src) for a destination buffer of shape dstshape
CopyTo(dstshape, src) ==
    IF BroadcastableTo(src.shape, dstshape)
    THEN Ok([shape |-> dstshape,
             data |-> [idx \in IndexSet(dstshape) |->
                          src.data[BIdx(idx, src.shape)]]])
    ELSE Err("ValueError")

IsPerm(axes) == \A m \in 0..(Len(axes) - 1) : \E k \in 1..Len(axes) : axes[k] = m

\* np.transpose(a, axes): out[i] = a[j] with j[axes[k]] = i[k]
NpTranspose(a, axes) ==
    IF Len(axes) # Len(a.shape) \/ ~IsPerm(axes) THEN Err("ValueError")
    ELSE LET r == Len(axes)
             oshape == [k \in 1..r |-> At(a.shape, axes[k])]
             src(i) == [m \in 1..r |-> i[CHOOSE k \in 1..r : axes[k] = m - 1]]
         IN  Ok([shape |-> oshape,
                 data |-> [i \in IndexSet(oshape) |-> a.data[src(i)]]])

\* <a, b> = np.sum(a * b) of two arrays of one shape
Inner(a, b) ==
    LET ids == IndexSet(a.shape)
        RECURSIVE Acc(_)
        Acc(S) == IF S = {} THEN R(0)
                  ELSE LET i == CHOOSE i \in S : TRUE
                       IN  RAdd(RMul(a.data[i], b.data[i]), Acc(S \ {i}))
    IN  Acc(ids)

\* np.amax of a set of numbers
RECURSIVE AMax(_)
AMax(S) ==
    LET q == CHOOSE q \in S : TRUE
    IN  IF S = {q} THEN q ELSE RMax(q, AMax(S \ {q}))

(***************************************************************************)
(* pxwise_matrixmult                                                       *)
(***************************************************************************)
PxPixels(A) == SubSeq(A.shape, 1, Len(A.shape) - 2)
PxN(A) == A.shape[Len(A.shape) - 1]
PxM(A) == A.shape[Len(A.shape)]

\* pxwise_matrixmult.__init__(A, arg, normbound): the assertion compares the
\* pixel dimensions only
PxInit(A, argshape, normbound) ==
    IF NumpyAllEq(PxPixels(A), Front(argshape))
    THEN [kind |-> "pxwise_matrixmult", A |-> A, normbound |-> normbound,
          axes |-> <<>>, inverse |-> <<>>,
          shape |-> Front(A.shape), inshape |-> argshape]
    ELSE Err("AssertionError")

\* pxwise_matrixmult.forward: res[..., i] += A[..., i, j] * arg[..., j]
PxForward(nd, arg) ==
    LET A == nd.A
        ps == PxPixels(A)
        qs == Front(arg.shape)
        res == [shape |-> Front(A.shape),
                data |-> [idx \in IndexSet(Front(A.shape)) |->
                   LET p == Front(idx)
                       i == Last(idx)
                   IN  SumTo([j \in 0..(PxM(A) - 1) |->
                                RMul(A.data[p \o <<i, j>>],
                                     arg.data[BIdx(p, qs) \o <<j>>])],
                             PxM(A))]]
    IN  IF Len(arg.shape) = 0 THEN Err("IndexError")
        ELSE IF ~BroadcastableTo(qs, ps) THEN Err("ValueError")
        ELSE IF Last(arg.shape) < PxM(A) THEN Err("IndexError")
        ELSE CopyTo(nd.shape, res)

\* PxAdjoint with the inner loop one iteration short: range(N - 1)
PxAdjointShortLoop(nd, arg) ==
    LET A == nd.A
        rshape == PxPixels(A) \o <<PxM(A)>>
        res == [shape |-> rshape,
                data |-> [idx \in IndexSet(rshape) |->
                   LET p == Front(idx)
                       i == Last(idx)
                   IN  SumTo([j \in 0..(PxN(A) - 1) |->
                                RMul(A.data[p \o <<j, i>>],
                                     arg.data[p \o <<j>>])],
                             PxN(A) - 1)]]
    IN  CopyTo(nd.inshape, res)

\* pxwise_matrixmult.adjoint: res[..., i] += A[..., j, i] * arg[..., j]
PxAdjoint(nd, arg) ==
    LET A == nd.A
        rshape == PxPixels(A) \o <<PxM(A)>>
        res == [shape |-> rshape,
                data |-> [idx \in IndexSet(rshape) |->
                   LET p == Front(idx)
                       i == Last(idx)
                   IN  SumTo([j \in 0..(PxN(A) - 1) |->
                                RMul(A.data[p \o <<j, i>>],
                                     arg.data[p \o <<j>>])],
                             PxN(A))]]
    IN  CopyTo(nd.inshape, res)

\* ATA[..., i, j] += A[..., k, i] * A[..., k, j]
PxATA(A) ==
    LET ashape == PxPixels(A) \o <<PxM(A), PxM(A)>>
    IN  [shape |-> ashape,
         data |-> [idx \in IndexSet(ashape) |->
            LET p == SubSeq(idx, 1, Len(idx) - 2)
                i == idx[Len(idx) - 1]
                j == idx[Len(idx)]
            IN  SumTo([k \in 0..(PxN(A) - 1) |->
                         RMul(A.data[p \o <<k, i>>], A.data[p \o <<k, j>>])],
                      PxN(A))]]

\* (a+d)**2 - 4*(a*d-b*c) of the 2x2 block at pixel p, clamped at 0
PxGapSq(ATA, p) ==
    LET a == ATA.data[p \o <<0, 0>>]
        b == ATA.data[p \o <<0, 1>>]
        c == ATA.data[p \o <<1, 0>>]
        d == ATA.data[p \o <<1, 1>>]
    IN  RMax(R(0), RSub(RMul(RAdd(a, d), RAdd(a, d)),
                        RMul(R(4), RSub(RMul(a, d), RMul(b, c)))))

\* l1 and l2 at pixel p
PxEig(ATA, p, sign) ==
    LET a == ATA.data[p \o <<0, 0>>]
        d == ATA.data[p \o <<1, 1>>]
        gapA == RSqrt(PxGapSq(ATA, p))
    IN  RMul(IF sign > 0 THEN RAdd(RAdd(a, d), gapA) ELSE RSub(RAdd(a, d), gapA),
             Half)

\* the branch of norm_bound taken for this A: the closed form is entered when
\* A.shape[-2] == 2, and reads ATA[..., 0, 1], which needs A.shape[-1] >= 2
PxNormCase(nd) ==
    IF nd.normbound # Unset THEN "override"
    ELSE IF PxN(nd.A) # 2 THEN "NotImplemented"
    ELSE IF PxM(nd.A) < 2 THEN "IndexError"
    ELSE "closed form"

\* nb of pxwise_matrixmult.norm_bound (before the product with input_mags[0])
PxNb(nd) ==
    LET ATA == PxATA(nd.A)
        P == IndexSet(PxPixels(nd.A))
        l == RMax(AMax({PxEig(ATA, p, 1) : p \in P}),
                  AMax({PxEig(ATA, p, -1) : p \in P}))
    IN  IF nd.normbound # Unset THEN nd.normbound.val ELSE RMax(l, R(0))

\* np.sqrt is exact on every eigen-gap of this A
PxGapRational(nd) ==
    \A p \in IndexSet(PxPixels(nd.A)) : HasRSqrt(PxGapSq(PxATA(nd.A), p))

PxNormBound(nd, mag) ==
    LET case == PxNormCase(nd)
    IN  IF case \in {"NotImplemented", "IndexError"} THEN Err(case)
        ELSE Ok(RMul(PxNb(nd), mag))

(***************************************************************************)
(* transpose                                                               *)
(***************************************************************************)
\* TrInverse taking the permutation for its own inverse
TrInverseAsAxes(axes, n) == axes

\* the loop of transpose.__init__: inverse[i] = idx for idx, i in enumerate(axes)
RECURSIVE TrInverse(_, _)
TrInverse(axes, n) ==
    IF n = 0 THEN [k \in 1..Len(axes) |-> k - 1]
    ELSE [TrInverse(axes, n - 1) EXCEPT ![axes[n] + 1] = n - 1]

TrInit(argshape, axes) ==
    [kind |-> "transpose", A |-> Zeros(<<>>), normbound |-> Unset,
     axes |-> axes, inverse |-> TrInverse(axes, Len(axes)),
     shape |-> [k \in 1..Len(axes) |-> At(argshape, axes[k])],
     inshape |-> argshape]

\* transpose.forward
TrForward(nd, arg) ==
    LET t == NpTranspose(arg, nd.axes)
    IN  IF IsErr(t) THEN t ELSE CopyTo(nd.shape, t.val)

\* transpose.adjoint
TrAdjoint(nd, arg) ==
    LET t == NpTranspose(arg, nd.inverse)
    IN  IF IsErr(t) THEN t ELSE CopyTo(nd.inshape, t.val)

TrNormBound(nd, mag) == Ok(mag)

(***************************************************************************)
(* The host operations of a node.                                          *)
(***************************************************************************)
NodeForward(nd, arg) ==
    IF nd.kind = "transpose" THEN TrForward(nd, arg) ELSE PxForward(nd, arg)

NodeAdjoint(nd, arg) ==
    IF nd.kind = "transpose" THEN TrAdjoint(nd, arg) ELSE PxAdjoint(nd, arg)

NodeNormBound(nd, mag) ==
    IF nd.kind = "transpose" THEN TrNormBound(nd, mag) ELSE PxNormBound(nd, mag)

IsNode(nd) == nd.kind \in {"pxwise_matrixmult", "transpose"}

(***************************************************************************)
(* Inputs of the linear-operator specification.                            *)
(***************************************************************************)
AVals == {R(0), Half}
XVals == {R(0), R(1)}
NormBounds == {Unset, Ok(R(2))}
PxAShapes == ShapesOfRank(2, MaxSize) \cup ShapesOfRank(3, MaxSize)
\* the ranks of the arrays a transpose permutes, and of the input nodes offered
\* to the constructor of a pxwise_matrixmult
TrRanks == {1, 2, 3}
ArgRanks == {0, 1, 2, 3}
TrShapes == UNION {ShapesOfRank(r, MaxSize) : r \in TrRanks}
TrAxes(r) == {axes \in [1..r -> 0..(r - 1)] : IsPerm(axes)}

\* the shape the class documents for the argument: K1 x ... x Kn x M
PxArgShape(A) == PxPixels(A) \o <<PxM(A)>>

\* no node constructed
LinIdle ==
    /\ node = Unset
    /\ x = Unset /\ fx = Unset
    /\ y = Unset /\ aty = Unset
    /\ nb = Unset

\* no wrapper constructed
ProxIdle ==
    /\ fn = Unset /\ args = Unset
    /\ call = Unset /\ vbuf = Unset /\ ret = Unset
    /\ calls = 0 /\ gens = 0

\* no chain built
CudaIdle ==
    /\ chain = Unset /\ cin = Unset /\ chost = Unset /\ ckern = Unset
    /\ emit = Unset

\* no wrapper derived
CopyIdle ==
    /\ orig = Unset /\ cop = Unset /\ derived = Unset /\ nops = 0

\* no kernel launched
LaunchIdle ==
    /\ launch = Unset /\ tpos = Unset /\ xhatw = Unset /\ oob = {}

LinInit == LinIdle /\ ProxIdle /\ CudaIdle /\ CopyIdle /\ LaunchIdle

\* any shape an input node may have
ArgShapes == UNION {ShapesOfRank(r, MaxSize) : r \in ArgRanks}

\* pxwise_matrixmult(A, arg, normbound) for some A with entries in avals and
\* some input node arg, of the documented shape or (anyarg) of any shape
ConstructPx(avals, anyarg) ==
    /\ node = Unset
    /\ \E ashape \in PxAShapes, normbound \in NormBounds :
          \E A \in Arrays(ashape, avals) :
              \E argshape \in (IF anyarg THEN ArgShapes ELSE {PxArgShape(A)}) :
                  node' = PxInit(A, argshape, normbound)
    /\ UNCHANGED <<x, fx, y, aty, nb, proxVars, cudaVars, copyVars, launchVars>>

\* transpose(arg, axes)
ConstructTr ==
    /\ node = Unset
    /\ \E argshape \in TrShapes :
          \E axes \in TrAxes(Len(argshape)) :
              node' = TrInit(argshape, axes)
    /\ UNCHANGED <<x, fx, y, aty, nb, proxVars, cudaVars, copyVars, launchVars>>

\* node.forward([arg], [out]) on an input buffer of the input node's shape
Forward ==
    /\ IsNode(node)
    /\ x = Unset
    /\ \E arg \in Arrays(node.inshape, XVals) :
          /\ x' = arg
          /\ fx' = NodeForward(node, arg)
    /\ UNCHANGED <<node, y, aty, nb, proxVars, cudaVars, copyVars, launchVars>>

\* node.adjoint([arg], [out]) on a buffer of the node's shape
Adjoint ==
    /\ IsNode(node)
    /\ y = Unset
    /\ \E arg \in Arrays(node.shape, XVals) :
          /\ y' = arg
          /\ aty' = NodeAdjoint(node, arg)
    /\ UNCHANGED <<node, x, fx, nb, proxVars, cudaVars, copyVars, launchVars>>

\* node.norm_bound([1]); evaluated where np.sqrt of the eigen-gap is rational
NormBound ==
    /\ IsNode(node)
    /\ nb = Unset
    /\ (node.kind = "pxwise_matrixmult" /\ PxNormCase(node) = "closed form")
          => PxGapRational(node)
    /\ nb' = NodeNormBound(node, R(1))
    /\ UNCHANGED <<node, x, fx, y, aty, proxVars, cudaVars, copyVars, launchVars>>

LinNext ==
    \/ ConstructPx(AVals, FALSE)
    \/ ConstructTr
    \/ Forward
    \/ Adjoint
    \/ NormBound

CtorNext ==
    \/ ConstructPx({Half}, TRUE)
    \/ Forward
    \/ Adjoint

SpecCtor == LinInit /\ [][CtorNext]_vars

SpecLin == LinInit /\ [][LinNext]_vars

(***************************************************************************)
(* ProxFn: alpha*f(beta*x - b) + <c,x> + gamma*<x,x> + d                    *)
(***************************************************************************)
\* Python values passed to the constructor
Scalar(q) == [kind |-> "scalar", val |-> q]
Arr(a) == [kind |-> "array", arr |-> a]
\* np.isscalar
IsScalar(e) == e.kind = "scalar"

\* elementwise array arithmetic (numpy in-place operators)
ArrScale(a, q) == [a EXCEPT !.data = [i \in DOMAIN a.data |-> RMul(a.data[i], q)]]
ArrDivBy(a, q) == [a EXCEPT !.data = [i \in DOMAIN a.data |-> RDiv(a.data[i], q)]]
ArrAdd(a, b) == [a EXCEPT !.data = [i \in DOMAIN a.data |-> RAdd(a.data[i], b.data[i])]]
ArrSub(a, b) == [a EXCEPT !.data = [i \in DOMAIN a.data |-> RSub(a.data[i], b.data[i])]]
\* q * np.ones(shape)
Full(shape, q) == [shape |-> shape, data |-> [i \in IndexSet(shape) |-> q]]
\* np.all(a == 0)
AllZero(a) == \A i \in DOMAIN a.data : RIsZero(a.data[i])

\* the alpha/gamma loop checking alpha only
ZipFirst(elems, names) == <<elems[1]>>

\* zip(elems, names): as long as the shorter of the two lists
Zip(elems, names) ==
    [k \in 1..(IF Len(elems) < Len(names) THEN Len(elems) ELSE Len(names)) |->
        elems[k]]

\* the first loop of __init__: b and c are scalars or arrays of lin_op.shape
InitDimsOk(shape, b, c) ==
    \A elem \in {b, c} : IsScalar(elem) \/ elem.arr.shape = shape

\* the second loop: zip([alpha, gamma, d], ["alpha", "gamma"])
InitNonnegOk(alpha, gamma, d) ==
    LET zipped == Zip(<<alpha, gamma, d>>, <<"alpha", "gamma">>)
    IN  \A k \in DOMAIN zipped :
            ~(~IsScalar(zipped[k]) \/ RLt(zipped[k].val, R(0)))

\* the third loop: zip([beta, d], ["beta", "d"])
InitScalarOk(beta, d) ==
    LET zipped == Zip(<<beta, d>>, <<"beta", "d">>)
    IN  \A k \in DOMAIN zipped : IsScalar(zipped[k])

\* ProxFn.__init__; a holds lin_op.shape, the keyword arguments, and what the
\* subclass provides (its core _prox and whether it defines _prox_cuda)
ProxFnInit(a) ==
    IF ~InitDimsOk(a.shape, a.b, a.c) THEN Err("Invalid dimensions")
    ELSE IF ~InitNonnegOk(a.alpha, a.gamma, a.d) THEN Err("must be a nonnegative scalar")
    ELSE IF ~InitScalarOk(a.beta, a.d) THEN Err("must be a scalar")
    ELSE [kind |-> "ProxFn", shape |-> a.shape,
          alpha |-> a.alpha.val, beta |-> a.beta.val,
          b |-> IF IsScalar(a.b) THEN Full(a.shape, a.b.val) ELSE a.b.arr,
          c |-> IF IsScalar(a.c) THEN Full(a.shape, a.c.val) ELSE a.c.arr,
          gamma |-> a.gamma.val, d |-> a.d.val,
          core |-> a.core, has_prox_cuda |-> a.has_prox_cuda,
          kernel_cuda_prox |-> Unset]

IsProxFn(f) == f.kind = "ProxFn"

\* The concrete _prox of the subclass, applied to every element.  sum_squares
\* works in place and returns its argument; non_negative returns a new array.
CoreElem(core, rho, q) ==
    IF core = "sum_squares" THEN RDiv(RMul(q, rho), RAdd(R(2), rho))
    ELSE RMax(q, R(0))

CoreProx(core, rho, a) ==
    [a EXCEPT !.data = [i \in DOMAIN a.data |-> CoreElem(core, rho, a.data[i])]]

CoreInPlace(core) == core = "sum_squares"

\* alpha * beta**2
AlphaBetaS(f) == RMul(f.alpha, RMul(f.beta, f.beta))

\* rho + 2 * gamma
RhoPlus2Gamma(f, rho) == RAdd(rho, RMul(R(2), f.gamma))

\* prox, line 87
ProxRhoHat(f, rho) == RDiv(RhoPlus2Gamma(f, rho), AlphaBetaS(f))

\* the in-place steps with b subtracted before the rescaling
ProxVHatEarlyB(f, rho, vin) ==
    LET v1 == ArrScale(vin, rho)
        v2 == ArrSub(v1, f.c)
        v3 == ArrSub(v2, f.b)
    IN  ArrScale(v3, RDiv(f.beta, RhoPlus2Gamma(f, rho)))

\* prox, lines 90-93: v *= rho; v -= c; v *= beta / (rho + 2 * gamma); v -= b
ProxVHat(f, rho, vin) ==
    LET v1 == ArrScale(vin, rho)
        v2 == ArrSub(v1, f.c)
        v3 == ArrScale(v2, RDiv(f.beta, RhoPlus2Gamma(f, rho)))
    IN  ArrSub(v3, f.b)

\* prox, lines 97-98: xhat += b; xhat /= beta
ProxRescale(f, xhat) == ArrDivBy(ArrAdd(xhat, f.b), f.beta)

\* ProxFn.prox(rho, v): the return value and the buffer v afterwards.  rho is a
\* Python number, so line 87 raises ZeroDivisionError when alpha * beta**2
\* is zero, before v is touched.
ProxCall(f, rho, vin) ==
    IF RIsZero(AlphaBetaS(f))
    THEN [ret |-> Err("ZeroDivisionError"), v |-> vin]
    ELSE LET vhat == ProxVHat(f, rho, vin)
             xhat == ProxRescale(f, CoreProx(f.core, ProxRhoHat(f, rho), vhat))
         IN  [ret |-> Ok(xhat),
              v |-> IF CoreInPlace(f.core) THEN xhat ELSE vhat]

\* ProxFn.cuda_additional_buffers: the names of the registered buffers
CudaAdditionalBuffers(f) ==
    (IF ~AllZero(f.c) THEN <<"c">> ELSE <<>>) \o
    (IF ~AllZero(f.b) THEN <<"b">> ELSE <<>>)

RECURSIVE Pow10(_)
Pow10(k) == IF k = 0 THEN 1 ELSE 10 * Pow10(k - 1)

\* the decimal exponent e of a > 0: 10^e <= a < 10^(e+1)
DecExp(a) ==
    CHOOSE e \in -1..1 :
        /\ IF e < 0 THEN a.n * Pow10(-e) >= a.d ELSE a.n >= Pow10(e) * a.d
        /\ IF e + 1 < 0 THEN a.n * Pow10(-e - 1) < a.d ELSE a.n < Pow10(e + 1) * a.d

\* the value of the literal "%.8ef" % q: q rounded to a mantissa of 8 decimals
Fmt8e(q) ==
    IF q.n = 0 THEN R(0)
    ELSE LET a == [n |-> Abs(q.n), d |-> q.d]
             k == 8 - DecExp(a)
             num == a.n * Pow10(k)
             m == (num \div a.d) + (IF 2 * (num % a.d) >= a.d THEN 1 ELSE 0)
         IN  Rat((IF q.n < 0 THEN -1 ELSE 1) * m, Pow10(k))

\* the value of an inf or nan float
NonFinite == [n |-> 1, d |-> 0]

\* ProxFn.gen_cuda_code.  The first pass of the loop over the additional
\* buffers reads self.argnames, an attribute that is never set, so the call
\* raises AttributeError when a buffer is registered; otherwise argnames is
\* empty and the kernel text holds neither b nor c.  The source the core
\* generator emits is taken to compile.
GenCudaCode(f) ==
    IF CudaAdditionalBuffers(f) # <<>> THEN Err("AttributeError")
    ELSE Ok([argnames |-> <<>>,
             dimv |-> Prod(f.shape),
             plus_2gamma |-> IF RIsZero(f.gamma) THEN Unset
                             ELSE Ok(Fmt8e(RMul(f.gamma, R(2)))),
             div_alpha_beta_s |-> IF AlphaBetaS(f) = R(1) THEN Unset
                                  ELSE Ok(Fmt8e(AlphaBetaS(f))),
             mul_beta |-> IF f.beta = R(1) THEN Unset ELSE Ok(Fmt8e(f.beta)),
             xhatc_div_beta |-> IF f.beta = R(1) THEN Unset ELSE Ok(Fmt8e(f.beta))])

\* "rho%(plus_2gamma)s" in the kernel
KernelRhoPlus(k, rho) ==
    IF k.plus_2gamma = Unset THEN rho ELSE RAdd(rho, k.plus_2gamma.val)

\* does the kernel divide by a zero literal
KernelDivZero(k) ==
    \/ (k.div_alpha_beta_s # Unset /\ RIsZero(k.div_alpha_beta_s.val))
    \/ (k.xhatc_div_beta # Unset /\ RIsZero(k.xhatc_div_beta.val))

\* one pass of the kernel's loop body: the value stored to xhat[vidx] for the
\* input element q = v[vidx]
KernelElem(k, core, rho, q) ==
    LET rho_hat == IF k.div_alpha_beta_s = Unset THEN KernelRhoPlus(k, rho)
                   ELSE RDiv(KernelRhoPlus(k, rho), k.div_alpha_beta_s.val)
        vrho == RMul(q, rho)
        genv == RDiv(IF k.mul_beta = Unset THEN vrho ELSE RMul(vrho, k.mul_beta.val),
                     KernelRhoPlus(k, rho))
        xhatc == CoreElem(core, rho_hat, genv)
    IN  IF k.xhatc_div_beta = Unset THEN xhatc
        ELSE RDiv(xhatc, k.xhatc_div_beta.val)

\* one launch of the kernel: xhat[vidx] is stored for every vidx
KernelLaunch(k, core, rho, vin) ==
    [vin EXCEPT !.data = [i \in DOMAIN vin.data |->
        IF KernelDivZero(k) THEN NonFinite ELSE KernelElem(k, core, rho, vin.data[i])]]

\* the branch of prox_cuda for a wrapper without _prox_cuda, lines 198-213:
\* the core runs on a host copy of v
ProxCudaFallback(f, rho, vin) ==
    IF RIsZero(AlphaBetaS(f))
    THEN [ret |-> Err("ZeroDivisionError"), v |-> vin]
    ELSE LET vhat == ProxVHat(f, rho, vin)
         IN  [ret |-> Ok(ProxRescale(f, CoreProx(f.core, ProxRhoHat(f, rho), vhat))),
              v |-> vhat]

(***************************************************************************)
(* Inputs of the wrapper specification.                                    *)
(***************************************************************************)
FnShapes == {<<2>>}
NonScalar == Arr(Full(<<1>>, R(1)))
AlphaArgs == {NonScalar} \cup {Scalar(R(i)) : i \in {-1, 0, 1, 2}}
BetaArgs == {NonScalar} \cup {Scalar(R(i)) : i \in {0, 1, 2}}
GammaArgs == {NonScalar} \cup {Scalar(R(i)) : i \in {-1, 0, 1}}
DArgs == {NonScalar} \cup {Scalar(R(i)) : i \in {-1, 0}}
OffsetArgs(shape) ==
    {Scalar(R(0)), NonScalar,
     Arr([shape |-> shape, data |-> [i \in IndexSet(shape) |-> R(Last(i))]])}
Cores == {"sum_squares", "non_negative"}
VVals == {R(-1), R(1)}
Rhos == {R(i) : i \in 1..MaxRho}

CtorArgs ==
    UNION {[shape : {shape}, alpha : AlphaArgs, beta : BetaArgs,
            b : OffsetArgs(shape), c : OffsetArgs(shape),
            gamma : GammaArgs, d : DArgs,
            core : Cores, has_prox_cuda : BOOLEAN] : shape \in FnShapes}

ProxInit == LinIdle /\ ProxIdle /\ CudaIdle /\ CopyIdle /\ LaunchIdle

\* ProxFn(lin_op, alpha, beta, b, c, gamma, d) with arguments from argset
Construct(argset) ==
    /\ fn = Unset
    /\ \E a \in argset :
          /\ args' = a
          /\ fn' = ProxFnInit(a)
    /\ UNCHANGED <<call, vbuf, ret, calls, gens, linVars, cudaVars, copyVars, launchVars>>

ConstructProxFn == Construct(CtorArgs)

\* fn.prox(rho, v)
Prox ==
    /\ IsProxFn(fn)
    /\ \E rho \in Rhos, vin \in Arrays(fn.shape, VVals) :
          LET r == ProxCall(fn, rho, vin)
          IN  /\ call' = [op |-> "prox", rho |-> rho, v |-> vin]
              /\ ret' = r.ret
              /\ vbuf' = r.v
    /\ UNCHANGED <<fn, args, calls, gens, linVars, cudaVars, copyVars, launchVars>>

\* fn.prox_cuda(rho, v)
ProxCuda ==
    /\ IsProxFn(fn)
    /\ calls < MaxCalls
    /\ calls' = calls + 1
    /\ \E rho \in Rhos, vin \in Arrays(fn.shape, VVals) :
          /\ call' = [op |-> "prox_cuda", rho |-> rho, v |-> vin]
          /\ IF fn.has_prox_cuda
             THEN LET generate == fn.kernel_cuda_prox = Unset
                      k == IF generate THEN GenCudaCode(fn) ELSE fn.kernel_cuda_prox
                  IN  /\ gens' = IF generate THEN gens + 1 ELSE gens
                      /\ fn' = [fn EXCEPT !.kernel_cuda_prox =
                                   IF IsOk(k) THEN k ELSE Unset]
                      /\ ret' = IF IsOk(k)
                                THEN Ok(KernelLaunch(k.val, fn.core, rho, vin))
                                ELSE k
                      /\ vbuf' = vin
             ELSE LET r == ProxCudaFallback(fn, rho, vin)
                  IN  /\ ret' = r.ret
                      /\ vbuf' = r.v
                      /\ UNCHANGED <<fn, gens>>
    /\ UNCHANGED <<args, linVars, cudaVars, copyVars, launchVars>>

ProxNext == ConstructProxFn \/ Prox \/ ProxCuda

SpecProx == ProxInit /\ [][ProxNext]_vars

(***************************************************************************)
(* ProxFn.copy and the scaling operators.                                  *)
(***************************************************************************)
\* a keyword argument that was not passed
NoneArg == [kind |-> "none"]
IsNone(e) == e.kind = "none"

\* a lin_op passed to copy
LinOpArg(shape) == [kind |-> "lin_op", shape |-> shape]

NoOverrides ==
    [lin_op |-> NoneArg, alpha |-> NoneArg, beta |-> NoneArg, gamma |-> NoneArg,
     b |-> NoneArg, c |-> NoneArg, d |-> NoneArg]

\* copy whose curr_args lacks gamma: the copy falls back to the default gamma
ProxCopyNoGamma(f, ov) ==
    ProxFnInit([shape |-> IF IsNone(ov.lin_op) THEN f.shape ELSE ov.lin_op.shape,
                alpha |-> IF IsNone(ov.alpha) THEN Scalar(f.alpha) ELSE ov.alpha,
                beta |-> IF IsNone(ov.beta) THEN Scalar(f.beta) ELSE ov.beta,
                gamma |-> IF IsNone(ov.gamma) THEN Scalar(R(0)) ELSE ov.gamma,
                c |-> IF IsNone(ov.c) THEN Arr(f.c) ELSE ov.c,
                b |-> IF IsNone(ov.b) THEN Arr(f.b) ELSE ov.b,
                d |-> IF IsNone(ov.d) THEN Scalar(f.d) ELSE ov.d,
                core |-> f.core, has_prox_cuda |-> f.has_prox_cuda])

\* ProxFn.copy(lin_op, **kwargs): type(self)(lin_op, *data, **kwargs) with the
\* current value for every keyword that was not passed
ProxCopy(f, ov) ==
    ProxFnInit([shape |-> IF IsNone(ov.lin_op) THEN f.shape ELSE ov.lin_op.shape,
                alpha |-> IF IsNone(ov.alpha) THEN Scalar(f.alpha) ELSE ov.alpha,
                beta |-> IF IsNone(ov.beta) THEN Scalar(f.beta) ELSE ov.beta,
                gamma |-> IF IsNone(ov.gamma) THEN Scalar(f.gamma) ELSE ov.gamma,
                c |-> IF IsNone(ov.c) THEN Arr(f.c) ELSE ov.c,
                b |-> IF IsNone(ov.b) THEN Arr(f.b) ELSE ov.b,
                d |-> IF IsNone(ov.d) THEN Scalar(f.d) ELSE ov.d,
                core |-> f.core, has_prox_cuda |-> f.has_prox_cuda])

\* ProxFn.__mul__
ProxMul(f, other) ==
    IF IsScalar(other) /\ RLt(R(0), other.val)
    THEN ProxCopy(f, [NoOverrides EXCEPT !.alpha = Scalar(RMul(f.alpha, other.val))])
    ELSE Err("TypeError")

\* ProxFn.__rmul__
ProxRMul(f, other) == ProxMul(f, other)

\* ProxFn.__div__ / __truediv__: (1. / other) * self
ProxDiv(f, other) ==
    IF ~IsScalar(other) THEN Err("TypeError")
    ELSE IF RIsZero(other.val) THEN Err("ZeroDivisionError")
    ELSE ProxRMul(f, Scalar(RDiv(R(1), other.val)))

\* what copy may be given
CopyOverrides ==
    [lin_op : {NoneArg, LinOpArg(<<1>>)},
     alpha : {NoneArg, Scalar(R(-1)), Scalar(R(2))},
     beta : {NoneArg, Scalar(R(2))},
     gamma : {NoneArg, Scalar(R(1))},
     b : {NoneArg, Scalar(R(1))},
     c : {NoneArg},
     d : {NoneArg}]

\* what a wrapper may be multiplied with or divided by
Factors == {NonScalar, Scalar(R(-1)), Scalar(R(0)), Scalar(Half), Scalar(R(2))}

\* the constructor arguments of the wrappers that are copied and scaled
CopyCtorArgs ==
    [shape : FnShapes,
     alpha : {Scalar(R(0)), Scalar(R(1))}, beta : {Scalar(R(1))},
     b : {Scalar(R(0))}, c : {Scalar(R(0))},
     gamma : {Scalar(R(0)), Scalar(R(1))}, d : {Scalar(R(0))},
     core : {"sum_squares"}, has_prox_cuda : {TRUE}]

\* the operation op derives a wrapper from fn; fn itself is not assigned
Derive(op, arg, result) ==
    /\ IsProxFn(fn)
    /\ derived = Unset
    /\ nops < MaxOps
    /\ orig' = fn
    /\ cop' = [op |-> op, arg |-> arg]
    /\ derived' = result
    /\ nops' = nops + 1
    /\ UNCHANGED <<proxVars, linVars, cudaVars, launchVars>>

\* fn.copy(lin_op, **kwargs)
Copy == \E ov \in CopyOverrides : Derive("copy", ov, ProxCopy(fn, ov))

\* fn * k
MulOp == \E k \in Factors : Derive("mul", k, ProxMul(fn, k))

\* k * fn
RMulOp == \E k \in Factors : Derive("rmul", k, ProxRMul(fn, k))

\* fn / k
DivOp == \E k \in Factors : Derive("div", k, ProxDiv(fn, k))

\* the program goes on with the derived wrapper: fn = fn.copy(...), fn = k * fn
Adopt ==
    /\ IsProxFn(derived)
    /\ fn' = derived
    /\ args' = Unset
    /\ call' = Unset /\ vbuf' = Unset /\ ret' = Unset
    /\ calls' = 0 /\ gens' = 0
    /\ orig' = Unset /\ cop' = Unset /\ derived' = Unset
    /\ UNCHANGED <<nops, linVars, cudaVars, launchVars>>

CopyNext == Construct(CopyCtorArgs) \/ ProxCuda \/ Copy \/ MulOp \/ RMulOp \/ DivOp \/ Adopt

SpecCopy == ProxInit /\ [][CopyNext]_vars

(***************************************************************************)
(* One launch of the generated prox kernel: the launch configuration of    *)
(* gen_cuda_code and the loop of the kernel template, one step per         *)
(* iteration of one thread.                                                *)
(***************************************************************************)
\* the smaller of two numbers
Min(a, b) == IF a < b THEN a ELSE b

\* lines 178-179: block and grid for dimv elements on a device
LaunchConfig(dimv, maxThreads) ==
    LET block == Min(dimv, maxThreads)
    IN  [dimv |-> dimv, block |-> block, grid |-> dimv \div block]

\* the threads of a launch: (blockIdx.x, threadIdx.x)
Threads(cfg) == (0..(cfg.grid - 1)) \X (0..(cfg.block - 1))

\* line 156: int index = blockIdx.x * blockDim.x + threadIdx.x
ThreadIndex(cfg, t) == t[1] * cfg.block + t[2]

\* a stride of one block only
KernelStrideOneBlock(cfg) == cfg.block

\* line 157: int stride = blockDim.x * gridDim.x
KernelStride(cfg) == cfg.block * cfg.grid

\* line 158: the loop condition vidx < dimv
LoopCond(cfg, vidx) == vidx < cfg.dimv

\* the shapes a wrapper's lin_op may have
LaunchShapes == ShapesOfRank(1, MaxDimv) \cup ShapesOfRank(2, MaxDimv)

\* kernel_cuda_prox(v, xhat, rho): the kernel is launched on arrays of the
\* lin_op's shape; every thread computes its index
Launch ==
    /\ launch = Unset
    /\ \E shape \in LaunchShapes, maxThreads \in 1..MaxThreadsPerBlock :
          LET cfg == LaunchConfig(Prod(shape), maxThreads)
          IN  /\ launch' = cfg
              /\ tpos' = [t \in Threads(cfg) |-> ThreadIndex(cfg, t)]
              /\ xhatw' = [i \in 0..(cfg.dimv - 1) |-> <<>>]
    /\ UNCHANGED <<oob, linVars, proxVars, cudaVars, copyVars>>

\* one iteration of the loop of one thread: v[vidx] is read, xhat[vidx] is
\* written and vidx advances by the stride
ThreadStep ==
    /\ launch # Unset
    /\ \E t \in DOMAIN tpos :
          LET vidx == tpos[t]
          IN  /\ LoopCond(launch, vidx)
              /\ IF vidx \in DOMAIN xhatw
                 THEN /\ xhatw' = [xhatw EXCEPT ![vidx] = Append(@, t)]
                      /\ oob' = oob
                 ELSE /\ oob' = oob \cup {vidx}
                      /\ xhatw' = xhatw
              /\ tpos' = [tpos EXCEPT ![t] = vidx + KernelStride(launch)]
    /\ UNCHANGED <<launch, linVars, proxVars, cudaVars, copyVars>>

LaunchInit == LinIdle /\ ProxIdle /\ CudaIdle /\ CopyIdle /\ LaunchIdle

LaunchNext == Launch \/ ThreadStep

SpecLaunch == LaunchInit /\ [][LaunchNext]_vars

(***************************************************************************)
(* Kernel emission: forward_cuda and adjoint_cuda over a chain of nodes.   *)
(* The emitted text is modelled by the value it computes for one absolute  *)
(* index, together with the temp counter the call returns.                 *)
(***************************************************************************)
\* the order of the elements of an ndarray in memory (C order)
LexLt(i, j) ==
    \E m \in 1..Len(i) : i[m] < j[m] /\ \A l \in 1..(m - 1) : i[l] = j[l]

\* the flat device buffer of an array: element k is the k-th index in C order
Ravel(a) ==
    [k \in 0..(Prod(a.shape) - 1) |->
        a.data[CHOOSE i \in IndexSet(a.shape) :
                  Cardinality({j \in IndexSet(a.shape) : LexLt(j, i)}) = k]]

\* the device memory of a kernel over a chain: the kernel's input buffer and
\* the additional buffer of every pxwise_matrixmult node
DeviceMemory(ch, buf) ==
    [arg |-> Ravel(buf),
     A |-> [k \in 1..Len(ch.nodes) |->
              IF ch.nodes[k].kind = "transpose" THEN <<>>
              ELSE Ravel(ch.nodes[k].A)]]

\* utils.codegen.sub2ind: the row-major linear index, in Horner form
RECURSIVE Sub2Ind(_, _)
Sub2Ind(idx, shape) ==
    IF Len(idx) = 0 THEN 0
    ELSE Sub2Ind(Front(idx), Front(shape)) * Last(shape) + Last(idx)

\* the shape of the output of the k-th node of a chain (of the variable for 0)
ChainShape(ch, k) == IF k = 0 THEN ch.shape ELSE ch.nodes[k].shape

\* the variable's forward_cuda: it reads its buffer at the linear index
LeafForwardCuda(ch, dev, n, absidx) ==
    [val |-> dev.arg[Sub2Ind(absidx, ch.shape)], n |-> n,
     decls |-> <<>>, trace |-> <<>>]

\* the adjoint_cuda of the end of the chain: it reads the kernel's input
EndAdjointCuda(ch, dev, n, absidx) ==
    [val |-> dev.arg[Sub2Ind(absidx, ChainShape(ch, Len(ch.nodes)))], n |-> n,
     decls |-> <<>>, trace |-> <<>>]

\* a loop reading A[aidx] in every iteration
PxForwardOffsetNone(A, i) == 0

\* forward_cuda, line 67: the offset added to aidx in iteration i
PxForwardOffset(A, i) == i

\* adjoint_cuda, line 86: aoff
PxAdjointOffset(A, i) == i * PxM(A)

\* a loop that drops the counter its callee returned
PxNextCounterStale(before, returned) == before

\* lines 64 and 84: num_tmp_vars is assigned the counter the callee returned
PxNextCounter(before, returned) == returned

\* lines 53-54 and 74-75: the declarations "float var_n" and "int idx_(n+1)"
PxDecls(n) == << <<"var", n>>, <<"idx", n + 1>> >>

\* the kind of the k-th node of a chain; 0 is the variable, Len + 1 the end
NodeKind(ch, k) ==
    IF k = 0 THEN "variable"
    ELSE IF k = Len(ch.nodes) + 1 THEN "end"
    ELSE ch.nodes[k].kind

\* one call in the walk: the node, the counter received, the counter returned
Called(kind, k, received, returned) ==
    [kind |-> kind, node |-> k, received |-> received, returned |-> returned]

\* transpose.forward_cuda, line 34 / adjoint_cuda, line 38: new_idx
TrForwardIdx(nd, absidx) == [i \in 1..Len(absidx) |-> At(absidx, nd.inverse[i])]
TrAdjointIdx(nd, absidx) == [i \in 1..Len(absidx) |-> At(absidx, nd.axes[i])]

RECURSIVE ForwardCuda(_, _, _, _, _)
RECURSIVE PxForwardLoop(_, _, _, _, _, _)

\* pxwise_matrixmult.forward_cuda after i iterations of its loop
PxForwardLoop(ch, dev, k, n, absidx, i) ==
    LET A == ch.nodes[k].A
        linaidx == Sub2Ind(absidx \o <<0>>, A.shape)
    IN  IF i = 0 THEN [val |-> R(0), n |-> n + 2,
                           decls |-> PxDecls(n), trace |-> <<>>]
        ELSE LET prev == PxForwardLoop(ch, dev, k, n, absidx, i - 1)
                 newidx == [absidx EXCEPT ![Len(absidx)] = i - 1]
                 in == ForwardCuda(ch, dev, k - 1, prev.n, newidx)
             IN  [val |-> RAdd(prev.val,
                               RMul(in.val,
                                    dev.A[k][linaidx + PxForwardOffset(A, i - 1)])),
                  n |-> PxNextCounter(prev.n, in.n),
                  decls |-> prev.decls \o in.decls,
                  trace |-> prev.trace \o in.trace]

\* node k's forward_cuda(cg, num_tmp_vars = n, absidx, parent)
ForwardCuda(ch, dev, k, n, absidx) ==
    LET r == IF k = 0 THEN LeafForwardCuda(ch, dev, n, absidx)
             ELSE IF ch.nodes[k].kind = "transpose"
             THEN ForwardCuda(ch, dev, k - 1, n, TrForwardIdx(ch.nodes[k], absidx))
             ELSE PxForwardLoop(ch, dev, k, n, absidx, PxM(ch.nodes[k].A))
    IN  [r EXCEPT !.trace = <<Called(NodeKind(ch, k), k, n, r.n)>> \o @]

RECURSIVE AdjointCuda(_, _, _, _, _)
RECURSIVE PxAdjointLoop(_, _, _, _, _, _)

\* pxwise_matrixmult.adjoint_cuda after i iterations of its loop
PxAdjointLoop(ch, dev, k, n, absidx, i) ==
    LET A == ch.nodes[k].A
        linaidx == Sub2Ind(Front(absidx) \o <<0, Last(absidx)>>, A.shape)
    IN  IF i = 0 THEN [val |-> R(0), n |-> n + 2,
                           decls |-> PxDecls(n), trace |-> <<>>]
        ELSE LET prev == PxAdjointLoop(ch, dev, k, n, absidx, i - 1)
                 newidx == [absidx EXCEPT ![Len(absidx)] = i - 1]
                 out == AdjointCuda(ch, dev, k + 1, prev.n, newidx)
             IN  [val |-> RAdd(prev.val,
                               RMul(out.val,
                                    dev.A[k][linaidx + PxAdjointOffset(A, i - 1)])),
                  n |-> PxNextCounter(prev.n, out.n),
                  decls |-> prev.decls \o out.decls,
                  trace |-> prev.trace \o out.trace]

\* node k's adjoint_cuda(cg, num_tmp_vars = n, absidx, parent)
AdjointCuda(ch, dev, k, n, absidx) ==
    LET r == IF k = Len(ch.nodes) + 1 THEN EndAdjointCuda(ch, dev, n, absidx)
             ELSE IF ch.nodes[k].kind = "transpose"
             THEN AdjointCuda(ch, dev, k + 1, n, TrAdjointIdx(ch.nodes[k], absidx))
             ELSE PxAdjointLoop(ch, dev, k, n, absidx, PxN(ch.nodes[k].A))
    IN  [r EXCEPT !.trace = <<Called(NodeKind(ch, k), k, n, r.n)>> \o @]

\* the walk that generates the kernel body of one direction, started with
\* the counter n; the thread's index is symbolic, so any index gives the walk
EmissionWalk(ch, dir, buf, n) ==
    LET dev == DeviceMemory(ch, buf)
        r == IF dir = "forward"
             THEN ForwardCuda(ch, dev, Len(ch.nodes), n,
                              CHOOSE idx \in IndexSet(ChainShape(ch, Len(ch.nodes))) : TRUE)
             ELSE AdjointCuda(ch, dev, 1, n,
                              CHOOSE idx \in IndexSet(ch.shape) : TRUE)
    IN  [dir |-> dir, received |-> n, returned |-> r.n,
         decls |-> r.decls, trace |-> r.trace]

\* the fused forward kernel: one thread per output index
KernelForward(ch, buf) ==
    LET oshape == ChainShape(ch, Len(ch.nodes))
        dev == DeviceMemory(ch, buf)
    IN  [shape |-> oshape,
         data |-> [idx \in IndexSet(oshape) |->
                     ForwardCuda(ch, dev, Len(ch.nodes), 0, idx).val]]

\* the fused adjoint kernel: one thread per index of the variable
KernelAdjoint(ch, buf) ==
    LET dev == DeviceMemory(ch, buf)
    IN  [shape |-> ch.shape,
         data |-> [idx \in IndexSet(ch.shape) |->
                     AdjointCuda(ch, dev, 1, 0, idx).val]]

\* the host evaluation of the chain: forward through nodes 1..k
RECURSIVE HostForward(_, _, _)
HostForward(ch, buf, k) ==
    IF k = 0 THEN Ok(buf)
    ELSE LET r == HostForward(ch, buf, k - 1)
         IN  IF IsErr(r) THEN r ELSE NodeForward(ch.nodes[k], r.val)

\* adjoint through nodes Len..k
RECURSIVE HostAdjoint(_, _, _)
HostAdjoint(ch, buf, k) ==
    IF k = Len(ch.nodes) + 1 THEN Ok(buf)
    ELSE LET r == HostAdjoint(ch, buf, k + 1)
         IN  IF IsErr(r) THEN r ELSE NodeAdjoint(ch.nodes[k], r.val)

(***************************************************************************)
(* Inputs of the emission specification.  The operators are linear and the *)
(* emitted index arithmetic does not depend on the data, so a constant     *)
(* tensor with pairwise distinct entries and the unit buffers expose every *)
(* element the kernel reads.                                               *)
(***************************************************************************)
\* an array whose entries are pairwise distinct and non-zero: 1, 2, 3, ...
Ramp(shape) ==
    [shape |-> shape,
     data |-> [idx \in IndexSet(shape) |->
                 R(1 + Cardinality({j \in IndexSet(shape) : LexLt(j, idx)}))]]

UnitArrays(shape) ==
    {[shape |-> shape,
      data |-> [idx \in IndexSet(shape) |-> IF idx = j THEN R(1) ELSE R(0)]] :
        j \in IndexSet(shape)}

ChainBuffers(shape) == UnitArrays(shape) \cup {Ramp(shape)}

VarShapes == UNION {ShapesOfRank(r, MaxSize) : r \in TrRanks}

\* the shapes of A that fit an input of the given shape
PxAShapesFor(shape) ==
    {Front(shape) \o <<n, Last(shape)>> : n \in 1..MaxSize} \cap
    UNION {ShapesOfRank(r, MaxSize) : r \in 2..(Len(shape) + 1)}

CudaInit ==
    /\ LinIdle /\ ProxIdle /\ CopyIdle /\ LaunchIdle
    /\ chain \in {[shape |-> s, nodes |-> <<>>] : s \in VarShapes}
    /\ cin = Unset /\ chost = Unset /\ ckern = Unset /\ emit = Unset

\* a pxwise_matrixmult is built on top of the chain
AddPx ==
    /\ Len(chain.nodes) < MaxChain
    /\ cin = Unset
    /\ \E ashape \in PxAShapesFor(ChainShape(chain, Len(chain.nodes))) :
          LET nd == PxInit(Ramp(ashape), ChainShape(chain, Len(chain.nodes)), Unset)
          IN  /\ IsNode(nd)
              /\ chain' = [chain EXCEPT !.nodes = Append(@, nd)]
    /\ UNCHANGED <<cin, chost, ckern, emit, linVars, proxVars, copyVars, launchVars>>

\* a transpose is built on top of the chain
AddTr ==
    /\ Len(chain.nodes) < MaxChain
    /\ cin = Unset
    /\ \E axes \in TrAxes(Len(ChainShape(chain, Len(chain.nodes)))) :
          chain' = [chain EXCEPT !.nodes =
                       Append(@, TrInit(ChainShape(chain, Len(chain.nodes)), axes))]
    /\ UNCHANGED <<cin, chost, ckern, emit, linVars, proxVars, copyVars, launchVars>>

\* the inputs an evaluation of the chain may be given
ChainInputs ==
    IF cin # Unset THEN {cin}
    ELSE {[dir |-> "forward", buf |-> b] : b \in ChainBuffers(chain.shape)} \cup
         {[dir |-> "adjoint", buf |-> b] :
             b \in ChainBuffers(ChainShape(chain, Len(chain.nodes)))}

\* the chain is evaluated on the host, node by node
HostRun ==
    /\ Len(chain.nodes) >= 1
    /\ chost = Unset
    /\ \E in \in ChainInputs :
          /\ cin' = in
          /\ chost' = IF in.dir = "forward"
                      THEN HostForward(chain, in.buf, Len(chain.nodes))
                      ELSE HostAdjoint(chain, in.buf, 1)
    /\ UNCHANGED <<chain, ckern, emit, linVars, proxVars, copyVars, launchVars>>

\* the fused kernel of the chain is generated and launched
KernelRun ==
    /\ Len(chain.nodes) >= 1
    /\ ckern = Unset
    /\ \E in \in ChainInputs :
          /\ cin' = in
          /\ ckern' = IF in.dir = "forward"
                      THEN KernelForward(chain, in.buf)
                      ELSE KernelAdjoint(chain, in.buf)
          /\ emit' = EmissionWalk(chain, in.dir, in.buf, 0)
    /\ UNCHANGED <<chain, chost, linVars, proxVars, copyVars, launchVars>>

CudaNext == AddPx \/ AddTr \/ HostRun \/ KernelRun

SpecCuda == CudaInit /\ [][CudaNext]_vars

(***************************************************************************)
(* Properties of the linear operators.                                     *)
(***************************************************************************)
NormSq(a) == Inner(a, a)

\* C1: for a pxwise_matrixmult over an input of the documented shape and for
\* a transpose, forward and adjoint complete and <forward(x), y> equals
\* <x, adjoint(y)> for the x and y the two calls were given.
AdjointIdentity ==
    (IsNode(node) /\ x # Unset /\ y # Unset) =>
        /\ IsOk(fx) /\ IsOk(aty)
        /\ Inner(fx.val, y) = Inner(x, aty.val)

\* a rectangular per-pixel matrix, both calls made, and a non-zero product
AdjointIdentityWitness ==
    /\ node.kind = "pxwise_matrixmult"
    /\ PxN(node.A) # PxM(node.A)
    /\ Len(PxPixels(node.A)) = 1
    /\ IsOk(fx) /\ IsOk(aty)
    /\ ~RIsZero(Inner(fx.val, y))

\* C3 as claimed: without an override, whenever norm_bound returns a value,
\* ||forward(x)||^2 <= norm_bound([1])^2 * ||x||^2.
NormBoundSound ==
    (IsNode(node) /\ node.normbound = Unset /\ IsOk(fx) /\ IsOk(nb)) =>
        RLe(NormSq(fx.val), RMul(RMul(nb.val, nb.val), NormSq(x)))

\* C4: the inverse of a transpose satisfies inverse[axes[i]] == i, and
\* adjoint applied to what forward wrote gives back the input exactly.
TransposeRoundTrip ==
    node.kind = "transpose" =>
        /\ \A i \in 0..(Len(node.axes) - 1) :
              At(node.inverse, At(node.axes, i)) = i
        /\ x # Unset => IsOk(fx)
        /\ (IsOk(fx) /\ y = fx.val) => (IsOk(aty) /\ aty.val = x)

\* a cyclic permutation of three axes that moves data, and the round trip made
TransposeRoundTripWitness ==
    /\ node.kind = "transpose"
    /\ node.axes = <<1, 2, 0>>
    /\ IsOk(fx) /\ y = fx.val /\ IsOk(aty)
    /\ fx.val.shape # x.shape
    /\ \E i, j \in IndexSet(x.shape) : x.data[i] # x.data[j]

\* C9 as claimed: a pxwise_matrixmult exists only over an input of shape
\* (K1..Kn, M), its shape is then (K1..Kn, N), and no call of forward or
\* adjoint meets a shape error.
PxShapeCheckedAtConstruction ==
    node.kind = "pxwise_matrixmult" =>
        /\ node.inshape = PxArgShape(node.A)
        /\ node.shape = PxPixels(node.A) \o <<PxN(node.A)>>
        /\ ~IsErr(fx) /\ ~IsErr(aty)

\* C10 as claimed: without an override norm_bound fails as not implemented
\* exactly when M # 2; with an override it returns normbound * input_mags[0].
NormBoundFailsIffMNot2 ==
    (node.kind = "pxwise_matrixmult" /\ nb # Unset) =>
        IF node.normbound = Unset
        THEN IF PxM(node.A) # 2 THEN nb = Err("NotImplemented") ELSE IsOk(nb)
        ELSE nb = Ok(RMul(node.normbound.val, R(1)))

(***************************************************************************)
(* Properties of the wrapper.                                              *)
(***************************************************************************)
\* the reduction formula of prox, element by element, for the caller's v
ReducedProx(f, rho, vin) ==
    LET two_gamma == RMul(R(2), f.gamma)
        rho_hat == RDiv(RAdd(rho, two_gamma), RMul(f.alpha, RMul(f.beta, f.beta)))
        v_hat == [i \in DOMAIN vin.data |->
                     RSub(RMul(RSub(RMul(vin.data[i], rho), f.c.data[i]),
                               RDiv(f.beta, RAdd(rho, two_gamma))),
                          f.b.data[i])]
    IN  [shape |-> vin.shape,
         data |-> [i \in DOMAIN vin.data |->
                     RDiv(RAdd(CoreElem(f.core, rho_hat, v_hat[i]), f.b.data[i]),
                          f.beta)]]

\* C2: whenever alpha * beta^2 is not zero, prox(rho, v) returns
\* (x_hat + b) / beta with x_hat = _prox(rho_hat, v_hat),
\* rho_hat = (rho + 2*gamma) / (alpha*beta^2) and
\* v_hat = ((v*rho) - c) * (beta / (rho + 2*gamma)) - b, v being the value
\* the caller passed in, for either core.
ProxIsReducedProx ==
    (IsProxFn(fn) /\ call # Unset /\ call.op = "prox" /\ ~RIsZero(AlphaBetaS(fn))) =>
        /\ IsOk(ret)
        /\ ret.val = ReducedProx(fn, call.rho, call.v)

\* prox has returned for a wrapper with every parameter away from its default
ProxIsReducedProxWitness ==
    /\ IsProxFn(fn) /\ call # Unset /\ call.op = "prox" /\ IsOk(ret)
    /\ fn.alpha = R(2) /\ fn.beta = R(2) /\ fn.gamma = R(1)
    /\ ~AllZero(fn.b) /\ ~AllZero(fn.c)
    /\ fn.core = "sum_squares"
    /\ call.rho = R(2)
    /\ ret.val # call.v /\ vbuf # call.v

\* C6 as claimed: for a wrapper with alpha > 0 and beta # 0 that defines
\* _prox_cuda, prox_cuda generates the kernel and returns what host prox
\* returns, and b and c are kernel parameters exactly when they are not
\* identically zero.
KernelEqualsHostProx ==
    (/\ IsProxFn(fn) /\ fn.has_prox_cuda
     /\ RLt(R(0), fn.alpha) /\ ~RIsZero(fn.beta)
     /\ call # Unset /\ call.op = "prox_cuda") =>
        /\ IsOk(ret)
        /\ ret.val = ReducedProx(fn, call.rho, call.v)
        /\ fn.kernel_cuda_prox # Unset
        /\ \A name \in {"b", "c"} :
              (\E k \in DOMAIN fn.kernel_cuda_prox.val.argnames :
                    fn.kernel_cuda_prox.val.argnames[k] = name)
              <=> ~AllZero(IF name = "b" THEN fn.b ELSE fn.c)

\* C7 as claimed: on a wrapper that defines _prox_cuda, gen_cuda_code runs at
\* most once over any sequence of prox_cuda calls, and after the first call
\* the kernel is cached.
KernelGeneratedOnce ==
    (IsProxFn(fn) /\ fn.has_prox_cuda) =>
        /\ gens <= 1
        /\ calls >= 1 => fn.kernel_cuda_prox # Unset

\* what C8 calls an invalid argument list
InvalidArgs(a) ==
    \/ ~IsScalar(a.alpha) \/ ~IsScalar(a.gamma)
    \/ (IsScalar(a.alpha) /\ a.alpha.val.n < 0)
    \/ (IsScalar(a.gamma) /\ a.gamma.val.n < 0)
    \/ ~IsScalar(a.beta) \/ ~IsScalar(a.d)
    \/ \E e \in {a.b, a.c} : ~IsScalar(e) /\ e.arr.shape # a.shape

\* C8: the constructor raises, and no wrapper exists, whenever alpha or gamma
\* is negative or non-scalar, beta or d is non-scalar, or b or c is neither a
\* scalar nor an array of lin_op.shape; hence no call of prox meets such a
\* parameter.
ConstructorRejectsInvalid ==
    args # Unset =>
        /\ InvalidArgs(args) => (IsErr(fn) /\ call = Unset /\ ret = Unset)
        /\ IsProxFn(fn) => ~InvalidArgs(args)

\* the constructor has refused arguments whose only fault is a negative gamma
ConstructorRejectsInvalidWitness ==
    /\ args # Unset /\ IsErr(fn)
    /\ IsScalar(args.gamma) /\ args.gamma.val.n < 0
    /\ IsScalar(args.alpha) /\ args.alpha.val.n > 0
    /\ IsScalar(args.beta) /\ IsScalar(args.d)
    /\ IsScalar(args.b) /\ IsScalar(args.c)

(***************************************************************************)
(* Properties of the kernel emission.                                      *)
(***************************************************************************)
\* C5: for a chain of pxwise_matrixmult and transpose nodes, the value the
\* emitted forward expression computes for every output index is the host
\* forward value at that index, and the value the emitted adjoint expression
\* computes for every input index is the host adjoint value at that index.
KernelEqualsHost ==
    (chost # Unset /\ ckern # Unset) =>
        /\ IsOk(chost)
        /\ ckern = chost.val

\* an adjoint kernel through a cyclic transpose of three axes and a
\* rectangular pxwise_matrixmult with more than one pixel
KernelEqualsHostWitness ==
    /\ chain # Unset /\ Len(chain.nodes) = 2
    /\ chain.nodes[1].kind = "transpose" /\ chain.nodes[1].axes = <<1, 2, 0>>
    /\ chain.nodes[2].kind = "pxwise_matrixmult"
    /\ PxN(chain.nodes[2].A) # PxM(chain.nodes[2].A)
    /\ Prod(PxPixels(chain.nodes[2].A)) > 1
    /\ cin # Unset /\ cin.dir = "adjoint"
    /\ IsOk(chost) /\ ckern = chost.val
    /\ ~AllZero(ckern)

(***************************************************************************)
(* Properties of copy and of the scaling operators.                        *)
(***************************************************************************)
\* the value copy passes to the constructor for one keyword
Kept(ov, cur) == IF IsNone(ov) THEN cur ELSE ov.val

\* the stored b or c for an override that is a scalar or an array
KeptOffset(ov, cur, shape) ==
    IF IsNone(ov) THEN cur
    ELSE IF IsScalar(ov) THEN Full(shape, ov.val) ELSE ov.arr

\* the wrapper g has the parameters of f except for the overrides ov
SameExcept(g, f, ov) ==
    /\ g.shape = (IF IsNone(ov.lin_op) THEN f.shape ELSE ov.lin_op.shape)
    /\ g.alpha = Kept(ov.alpha, f.alpha)
    /\ g.beta = Kept(ov.beta, f.beta)
    /\ g.gamma = Kept(ov.gamma, f.gamma)
    /\ g.d = Kept(ov.d, f.d)
    /\ g.b = KeptOffset(ov.b, f.b, g.shape)
    /\ g.c = KeptOffset(ov.c, f.c, g.shape)
    /\ g.core = f.core /\ g.has_prox_cuda = f.has_prox_cuda

\* what the operation cop is to return according to C11
CopyResultOk ==
    cop # Unset =>
        LET k == cop.arg
            positive == IsScalar(k) /\ RLt(R(0), k.val)
        IN  /\ (cop.op = "copy" /\ IsProxFn(derived)) =>
                   SameExcept(derived, orig, k)
            /\ (cop.op \in {"mul", "rmul"} /\ positive) =>
                   /\ IsProxFn(derived)
                   /\ SameExcept(derived, orig,
                         [NoOverrides EXCEPT !.alpha = Scalar(RMul(orig.alpha, k.val))])
            /\ (cop.op = "div" /\ positive) =>
                   /\ IsProxFn(derived)
                   /\ SameExcept(derived, orig,
                         [NoOverrides EXCEPT !.alpha = Scalar(RDiv(orig.alpha, k.val))])
            /\ (cop.op \in {"mul", "rmul"} /\ ~positive) =>
                   derived = Err("TypeError")
            /\ IsProxFn(derived) => derived.kernel_cuda_prox = Unset

WrapperParamsValid ==
    \A f \in {fn, derived} :
        IsProxFn(f) =>
            /\ RLt(R(0), f.alpha) /\ ~RIsZero(f.beta) /\ RLe(R(0), f.gamma)
            /\ ~RIsZero(AlphaBetaS(f))
            /\ \A rho \in Rhos : ~RIsZero(RhoPlus2Gamma(f, rho))

\* C13: in one emission walk every forward_cuda / adjoint_cuda call returns a
\* counter not below the one it received, a pxwise_matrixmult call returns one
\* at least two above it, and no two declarations of the kernel body carry
\* the same name.
TempNamesUnique ==
    emit # Unset =>
        /\ \A c \in DOMAIN emit.trace :
              /\ emit.trace[c].returned >= emit.trace[c].received
              /\ emit.trace[c].kind = "pxwise_matrixmult" =>
                    emit.trace[c].returned >= emit.trace[c].received + 2
        /\ \A i, j \in DOMAIN emit.decls :
              emit.decls[i] = emit.decls[j] => i = j

\* a walk through two pxwise_matrixmult nodes, the inner one emitted once per
\* index of the outer loop, at least twice
TempNamesUniqueWitness ==
    /\ emit # Unset /\ chain # Unset /\ Len(chain.nodes) = 2
    /\ \A k \in 1..2 : chain.nodes[k].kind = "pxwise_matrixmult"
    /\ Len(emit.decls) >= 6
    /\ emit.returned = Len(emit.decls)
    /\ \A i, j \in DOMAIN emit.decls : emit.decls[i] = emit.decls[j] => i = j

(***************************************************************************)
(* Properties of the kernel launch.                                        *)
(***************************************************************************)
\* every thread of the launch has left its loop
LaunchDone ==
    /\ launch # Unset
    /\ \A t \in DOMAIN tpos : ~LoopCond(launch, tpos[t])

\* C14: with block = min(dimv, MAX_THREADS_PER_BLOCK) and grid = dimv // block
\* no element of xhat is written twice and no thread accesses an index
\* outside [0, dimv) at any point of any interleaving, and when every thread
\* has left its loop every element of xhat has been written exactly once.
LaunchWritesEachOnce ==
    launch # Unset =>
        /\ oob = {}
        /\ \A i \in DOMAIN xhatw : Len(xhatw[i]) <= 1
        /\ LaunchDone => \A i \in DOMAIN xhatw : Len(xhatw[i]) = 1

\* a finished launch with more elements than threads, in more than one
\* block, where a thread has written more than one element
LaunchWritesEachOnceWitness ==
    /\ LaunchDone
    /\ launch.grid > 1 /\ launch.block > 1
    /\ launch.dimv > launch.grid * launch.block
    /\ \A i \in DOMAIN xhatw : Len(xhatw[i]) = 1
    /\ \E i, j \in DOMAIN xhatw : i # j /\ xhatw[i] = xhatw[j]

====
